---- MODULE Spec2Model ----
(***************************************************************************)
(* Model of the two CI helper scripts of koku-test-container:              *)
(*   files/bin/deploy.py          (deploy step, function main)             *)
(*   files/bin/deploy-iqe-cji.py  (test-job step, class IQERunner)         *)
(* One behaviour is one run of one script.  The environment (arguments,    *)
(* environment variables) is fixed by Init; the outcome of every external  *)
(* command (label API, bonfire, oc) is chosen when the command is issued.  *)
(* Strings the code inspects by character (labels: str.endswith) are       *)
(* sequences of one-character strings.                                     *)
(***************************************************************************)
EXTENDS Integers, Sequences, FiniteSets, TLC

VARIABLES
    script,              \* which script runs: "deploy" or "iqe"
    check,               \* --check / -c
    pr_number,           \* PR_NUMBER ("" when unset)
    snapshot,            \* SNAPSHOT payload: [valid, components]
    pipeline_run_name,   \* PIPELINE_RUN_NAME, or None when unset
    timeout_env,         \* IQE_CJI_TIMEOUT / DEPLOY_TIMEOUT, or None when unset
    environ,             \* the other environment variables the derivations read
    derived,             \* values returned by the derivations applied on their own
    pc,                  \* position in main() / IQERunner.run()
    labels,              \* the label set once obtained
    labelsFetched,       \* whether labels has been obtained
    pod,                 \* IQERunner.pod (None until run_pod stores the handle)
    calls,               \* external commands issued so far, in order
    messages,            \* diagnostics printed so far
    printedMap,          \* the job map printed by check_cji_jobs
    jobMap,              \* cji.status.jobMap as fetched by check_cji_jobs
    statusFetched,       \* whether jobMap has been fetched
    exitCode,            \* process exit status (meaningful when pc = "done")
    outcome,             \* which exit path the run has taken
    logOutcome,          \* how follow_logs ended
    waitOutcome,         \* how oc wait ended
    logElapsed,          \* seconds spent in follow_logs
    waitElapsed          \* seconds spent in oc wait

vars == <<script, check, pr_number, snapshot, pipeline_run_name, timeout_env,
          environ, derived, pc, labels, labelsFetched, pod, calls, messages, printedMap, jobMap,
          statusFetched, exitCode, outcome, logOutcome, waitOutcome,
          logElapsed, waitElapsed>>

----------------------------------------------------------------------------
(* Bounds of the model *)

\* longest components list of a snapshot
MaxComponents == 2
\* granularity of the clock, in seconds
TickSeconds == 3600

----------------------------------------------------------------------------
(* Strings *)

None == "None"

OkToSkipSmokes == <<"o", "k", "-", "t", "o", "-", "s", "k", "i", "p", "-", "s", "m", "o", "k", "e", "s">>
SmokesRequired == <<"s", "m", "o", "k", "e", "s", "-", "r", "e", "q", "u", "i", "r", "e", "d">>
RunKonfluxTests == <<"r", "u", "n", "-", "k", "o", "n", "f", "l", "u", "x", "-", "t", "e", "s", "t", "s">>
FullRunSmokeTests == <<"f", "u", "l", "l", "-", "r", "u", "n", "-", "s", "m", "o", "k", "e", "-", "t", "e", "s", "t", "s">>
HotFixSmokeTests == <<"h", "o", "t", "-", "f", "i", "x", "-", "s", "m", "o", "k", "e", "-", "t", "e", "s", "t", "s">>
Bug == <<"b", "u", "g">>
SmokeTestsSuffix == <<"s", "m", "o", "k", "e", "-", "t", "e", "s", "t", "s">>

\* the labels a pull request may carry in this model
LabelUniverse ==
    {OkToSkipSmokes, SmokesRequired, RunKonfluxTests, FullRunSmokeTests,
     HotFixSmokeTests, Bug}

\* str.endswith
EndsWith(s, suffix) ==
    /\ Len(s) >= Len(suffix)
    /\ SubSeq(s, Len(s) - Len(suffix) + 1, Len(s)) = suffix

\* any(label.endswith("smoke-tests") for label in labels)
AnySmokeTestsLabel(ls) == \E l \in ls : EndsWith(l, SmokeTestsSuffix)

\* the label set check mode falls back to when PR_LABELS is empty
PlaceholderLabels == {RunKonfluxTests, HotFixSmokeTests, Bug}

----------------------------------------------------------------------------
(* Inputs *)

ComponentNames == {"koku", "other"}

RECURSIVE SeqsUpTo(_, _)
SeqsUpTo(S, n) ==
    IF n = 0 THEN {<<>>}
    ELSE LET shorter == SeqsUpTo(S, n - 1)
         IN  shorter \cup {Append(s, x) : s \in shorter, x \in S}

\* source.git.revision and the image part of containerImage
LongRevision == <<"a", "b", "c", "1", "2", "3", "4", "e", "f">>
ShortRevision == <<"d", "0", "e">>
Image == <<"q", "u", "a", "y", ".", "i", "o", "/", "k", "o", "k", "u">>

Components == [name : ComponentNames, revision : {LongRevision}, image : {Image}]

\* what makes a SNAPSHOT payload unusable: SNAPSHOT unset (""), text that is
\* no JSON of the schema, a containerImage without "@sha256:", a component
\* without the containerImage key
SnapshotDefects == {"absent", "malformed", "bad_image", "no_image"}

\* SNAPSHOT: an unusable payload, or a valid one with its components
Snapshots ==
    {[valid |-> FALSE, defect |-> d, components |-> <<>>] : d \in SnapshotDefects}
    \cup {[valid |-> TRUE, defect |-> "none", components |-> cs] :
             cs \in SeqsUpTo(Components, MaxComponents)}

\* Snapshot.model_validate_json: "ok", "ValidationError" (pydantic wraps the
\* ValueError of a validator), or "KeyError" (data["containerImage"] of
\* container_image_validator, which pydantic does not wrap)
ModelValidateJson(snap) ==
    CASE snap.valid -> "ok"
      [] snap.defect = "no_image" -> "KeyError"
      [] OTHER -> "ValidationError"

ComponentNameSet(snap) ==
    {snap.components[i].name : i \in 1..Len(snap.components)}

PrNumbers == {"", "4242"}

TimeoutEnvValues == {None, "1h", "not-a-duration"}

JobNames == {"a", "b"}
JobStates == {"Complete", "Failed", "Running"}
JobMaps == UNION {[D -> JobStates] : D \in SUBSET JobNames}

----------------------------------------------------------------------------
(* Pure functions of the scripts *)

\* fuzzydate.to_seconds on the values of the model: the durations it parses
\* (any other string makes it raise ValueError)
Durations == {"1h", "2h", "90m", "6h"}

ToSeconds(s) ==
    CASE s = "1h" -> 60 * 60
      [] s = "2h" -> 2 * 60 * 60
      [] s = "90m" -> 90 * 60
      [] s = "6h" -> 6 * 60 * 60

\* get_timeout with the full-run value used as a lower limit of the
\* requested one
get_timeout_full_run_as_minimum(envValue, ls) ==
    LET requested == IF envValue = None THEN "2h" ELSE envValue
        timeout == IF requested \in Durations THEN ToSeconds(requested)
                   ELSE 2 * 60 * 60
    IN  IF ls # {} /\ FullRunSmokeTests \in ls /\ timeout < 5 * 60 * 60
        THEN 5 * 60 * 60
        ELSE timeout

\* deploy.get_timeout
get_timeout(envValue, ls) ==
    LET requested == IF envValue = None THEN "2h" ELSE envValue
        timeout == IF requested \in Durations THEN ToSeconds(requested)
                   ELSE 2 * 60 * 60
    IN  IF ls # {} /\ FullRunSmokeTests \in ls THEN 5 * 60 * 60 ELSE timeout

\* IQERunner.iqe_cji_timeout
iqe_cji_timeout == get_timeout(timeout_env, labels)

\* IqeGate with the missing-labels test moved in front of the skip test
IqeGateRequiredBeforeSkip(ls) ==
    IF SmokesRequired \in ls /\ ~AnySmokeTestsLabel(ls) THEN "ConfigurationError"
    ELSE IF OkToSkipSmokes \in ls THEN "Skipped"
    ELSE IF RunKonfluxTests \notin ls THEN "NotLabeled"
    ELSE "Proceed"

\* the gating IQERunner.run applies before run_pod
IqeGate(ls) ==
    IF OkToSkipSmokes \in ls THEN "Skipped"
    ELSE IF RunKonfluxTests \notin ls THEN "NotLabeled"
    ELSE IF SmokesRequired \in ls /\ ~AnySmokeTestsLabel(ls) THEN "ConfigurationError"
    ELSE "Proceed"

\* DeployGate asking for a smoke-tests label whether or not smokes-required is set
DeployGateAlwaysNeedsCategory(ls, snap) ==
    IF OkToSkipSmokes \in ls THEN "Skipped"
    ELSE IF "koku" \in ComponentNameSet(snap)
         THEN IF ~AnySmokeTestsLabel(ls) THEN "ConfigurationError"
              ELSE IF RunKonfluxTests \notin ls THEN "NotLabeled"
              ELSE "Proceed"
    ELSE "Proceed"

\* the gating deploy.main applies before the secrets are copied
DeployGate(ls, snap) ==
    IF OkToSkipSmokes \in ls THEN "Skipped"
    ELSE IF "koku" \in ComponentNameSet(snap)
         THEN IF SmokesRequired \in ls /\ ~AnySmokeTestsLabel(ls) THEN "ConfigurationError"
              ELSE IF RunKonfluxTests \notin ls THEN "NotLabeled"
              ELSE "Proceed"
    ELSE "Proceed"

\* the message each gating exit prints
GateMessage(decision) ==
    CASE decision = "Skipped" -> "PR labeled to skip smoke tests"
      [] decision = "NotLabeled" -> "PR is not labeled to run tests in Konflux"
      [] decision = "ConfigurationError" -> "Missing smoke tests labels."

\* return -> 0; sys.exit(<message>) -> 1
GateExitCode(decision) == IF decision = "ConfigurationError" THEN 1 ELSE 0

\* AnyIncomplete testing for "Failed" instead of anything but "Complete"
AnyFailed(jm) == \E j \in DOMAIN jm : jm[j] = "Failed"

\* any(v != "Complete" for v in job_map.values())
AnyIncomplete(jm) == \E j \in DOMAIN jm : jm[j] # "Complete"

----------------------------------------------------------------------------
(* Initial state: the process has been started with some arguments and    *)
(* some environment.                                                       *)

\* CHECK_RUN_ID when the variable is not set
UnsetRunId == [set |-> FALSE, value |-> <<>>]

\* IQE_FILTER_EXPRESSION, IQE_MARKER_EXPRESSION, CHECK_RUN_ID and
\* BONFIRE_COMPONENT_NAME, all unset
UnsetEnviron ==
    [filter |-> None, marker |-> None, check_run_id |-> UnsetRunId,
     component_name |-> None]

\* no derivation has been applied on its own
NoResult == [applied |-> {}]

Init ==
    /\ script \in {"deploy", "iqe"}
    /\ check \in BOOLEAN
    /\ pr_number \in PrNumbers
    /\ snapshot \in Snapshots
    /\ pipeline_run_name \in {None, "koku-ci-5rxkp"}
    /\ timeout_env \in TimeoutEnvValues
    /\ environ = UnsetEnviron
    /\ derived = NoResult
    /\ pc = "start"
    /\ labels = {}
    /\ labelsFetched = FALSE
    /\ pod = None
    /\ calls = <<>>
    /\ messages = {}
    /\ printedMap = <<>>
    /\ jobMap = <<>>
    /\ statusFetched = FALSE
    /\ exitCode = 0
    /\ outcome = "Running"
    /\ logOutcome = "none"
    /\ waitOutcome = "none"
    /\ logElapsed = 0
    /\ waitElapsed = 0

\* the process ends: exit status, exit path and the diagnostic printed
Exit(code, how, msgs) ==
    /\ pc' = "done"
    /\ exitCode' = code
    /\ outcome' = how
    /\ messages' = messages \cup msgs

----------------------------------------------------------------------------
(* How IQERunner.run handles the outcome of each command it issues *)

\* the exit statuses oc delete pod may end with
DeleteExitCodes == {0, 1, 2}

\* LogsHandler without the except sh.ErrorReturnCode clause
LogsHandlerErrorsFatal(result) ==
    CASE result = "ok" -> "continue"
      [] result = "timeout" -> "cleanup"
      [] result = "error" -> "raise"

\* try: follow_logs() / except sh.TimeoutException / except sh.ErrorReturnCode
LogsHandler(result) ==
    CASE result = "ok" -> "continue"
      [] result = "timeout" -> "cleanup"
      [] result = "error" -> "continue"

\* oc.delete.pod(..., _ok_code=[0, 1]): any other status raises
DeleteTolerated(code) == code \in {0, 1}

\* WaitHandler with the status of oc wait ignored
WaitHandlerIgnoresStatus(result) == "continue"

\* oc(["wait", ...]) outside any try: a nonzero status raises
WaitHandler(result) == IF result = "complete" THEN "continue" ELSE "raise"

----------------------------------------------------------------------------
(* Steps shared by both scripts *)

\* deploy.get_pr_labels, continuing at next
GetPrLabels(next) ==
    IF pr_number = ""
    THEN /\ labels' = {}
         /\ labelsFetched' = TRUE
         /\ pc' = next
         /\ UNCHANGED <<calls, messages, exitCode, outcome>>
    ELSE /\ calls' = Append(calls, "GET label api")
         /\ \/ \E ls \in SUBSET LabelUniverse :
                  /\ labels' = ls
                  /\ labelsFetched' = TRUE
                  /\ pc' = next
                  /\ UNCHANGED <<messages, exitCode, outcome>>
            \/ /\ Exit(1, "UpstreamAPIError", {"Error retrieving url"})
               /\ UNCHANGED <<labels, labelsFetched>>

env == <<script, check, pr_number, snapshot, pipeline_run_name, timeout_env,
         environ, derived>>
job == <<pod, printedMap, jobMap, statusFetched, logOutcome, waitOutcome,
         logElapsed, waitElapsed>>

----------------------------------------------------------------------------
(* deploy-iqe-cji.py *)

\* IQERunner.__init__
IqeInit ==
    /\ pc = "start" /\ script = "iqe"
    /\ LET parsed == ModelValidateJson(snapshot)
       IN  CASE parsed = "ok" ->
                  pc' = "iqe_labels" /\ UNCHANGED <<messages, exitCode, outcome>>
             [] parsed = "ValidationError" ->
                  Exit(1, "InvalidSnapshot", {"Missing or invalid SNAPSHOT"})
             [] OTHER -> Exit(1, "Crashed", {})
    /\ UNCHANGED <<env, job, labels, labelsFetched, calls>>

\* IQERunner.pr_labels, evaluated by the first line of run()
IqePrLabels ==
    /\ pc = "iqe_labels"
    /\ IF check
       THEN /\ \E envLabels \in SUBSET LabelUniverse :
                 labels' = IF envLabels = {} THEN PlaceholderLabels ELSE envLabels
            /\ labelsFetched' = TRUE
            /\ pc' = "iqe_gate"
            /\ UNCHANGED <<calls, messages, exitCode, outcome>>
       ELSE GetPrLabels("iqe_gate")
    /\ UNCHANGED <<env, job>>

\* IQERunner.run up to the call of run_pod
IqeGateStep ==
    /\ pc = "iqe_gate"
    /\ LET decision == IqeGate(labels)
       IN  IF decision = "Proceed"
           THEN pc' = "iqe_run_pod" /\ UNCHANGED <<messages, exitCode, outcome>>
           ELSE Exit(GateExitCode(decision), decision, {GateMessage(decision)})
    /\ UNCHANGED <<env, job, labels, labelsFetched, calls>>

\* IQERunner.run_pod
IqeRunPod ==
    /\ pc = "iqe_run_pod"
    /\ IF pipeline_run_name = None \/ snapshot.components = <<>>
       THEN \* job_name: None.rsplit; schema_suffix: components[0]
            /\ Exit(1, "Crashed", {})
            /\ UNCHANGED <<pod, calls>>
       ELSE IF check
       THEN /\ Exit(0, "CheckExit", {"bonfire deploy-iqe-cji"})
            /\ UNCHANGED <<pod, calls>>
       ELSE /\ calls' = Append(calls, "bonfire deploy-iqe-cji")
            /\ \/ /\ pod' = "iqe-pod"
                  /\ pc' = "iqe_follow_logs"
                  /\ messages' = messages \cup {"bonfire deploy-iqe-cji"}
                  /\ UNCHANGED <<exitCode, outcome>>
               \/ /\ Exit(1, "Crashed", {"bonfire deploy-iqe-cji"})
                  /\ UNCHANGED pod
    /\ UNCHANGED <<env, labels, labelsFetched, printedMap, jobMap, statusFetched,
                   logOutcome, waitOutcome, logElapsed, waitElapsed>>

\* what run() does once follow_logs has ended with result
AfterLogs(result, issued) ==
    /\ logOutcome' = result
    /\ LET handler == LogsHandler(result)
       IN  CASE handler = "continue" ->
                  /\ calls' = calls \o issued
                  /\ pc' = "iqe_wait"
                  /\ messages' = messages \cup
                        (IF result = "error" THEN {"Test command failed"} ELSE {})
                  /\ UNCHANGED <<exitCode, outcome>>
             [] handler = "cleanup" ->
                  /\ calls' = calls \o issued \o <<"oc delete pod">>
                  /\ \E code \in DeleteExitCodes :
                       IF DeleteTolerated(code)
                       THEN /\ pc' = "iqe_wait"
                            /\ messages' = messages \cup {"Test exceeded timeout"}
                            /\ UNCHANGED <<exitCode, outcome>>
                       ELSE Exit(1, "Crashed", {"Test exceeded timeout"})
             [] OTHER ->
                  /\ calls' = calls \o issued
                  /\ Exit(1, "Crashed", {})

\* IqeFollowLogs with oc wait started alongside oc logs
IqeFollowLogsWithConcurrentWait ==
    /\ pc = "iqe_follow_logs"
    /\ \/ /\ calls' = calls \o <<"oc get pod", "oc logs", "oc wait">>
          /\ pc' = "iqe_logs"
          /\ UNCHANGED <<messages, exitCode, outcome, logOutcome>>
       \/ AfterLogs("error", <<"oc get pod">>)
    /\ UNCHANGED <<env, labels, labelsFetched, pod, printedMap, jobMap,
                   statusFetched, waitOutcome, logElapsed, waitElapsed>>

\* IQERunner.follow_logs: the container name is resolved, then oc logs starts
IqeFollowLogs ==
    /\ pc = "iqe_follow_logs"
    /\ \/ /\ calls' = calls \o <<"oc get pod", "oc logs">>
          /\ pc' = "iqe_logs"
          /\ UNCHANGED <<messages, exitCode, outcome, logOutcome>>
       \/ AfterLogs("error", <<"oc get pod">>)
    /\ UNCHANGED <<env, labels, labelsFetched, pod, printedMap, jobMap,
                   statusFetched, waitOutcome, logElapsed, waitElapsed>>

Min(a, b) == IF a < b THEN a ELSE b

\* time passes while oc logs --follow runs (at most _timeout seconds)
IqeLogsTick ==
    /\ pc = "iqe_logs"
    /\ logElapsed < iqe_cji_timeout
    /\ logElapsed' = Min(logElapsed + TickSeconds, iqe_cji_timeout)
    /\ UNCHANGED <<env, pc, labels, labelsFetched, pod, calls, messages, printedMap,
                   jobMap, statusFetched, exitCode, outcome, logOutcome, waitOutcome,
                   waitElapsed>>

\* oc logs ends by itself, with status zero or not
IqeLogsEnd ==
    /\ pc = "iqe_logs"
    /\ \E result \in {"ok", "error"} : AfterLogs(result, <<>>)
    /\ UNCHANGED <<env, labels, labelsFetched, pod, printedMap, jobMap,
                   statusFetched, waitOutcome, logElapsed, waitElapsed>>

\* sh kills oc logs after _timeout seconds and raises TimeoutException
IqeLogsTimeout ==
    /\ pc = "iqe_logs"
    /\ logElapsed >= iqe_cji_timeout
    /\ AfterLogs("timeout", <<>>)
    /\ UNCHANGED <<env, labels, labelsFetched, pod, printedMap, jobMap,
                   statusFetched, waitOutcome, logElapsed, waitElapsed>>

\* IqeWait with the completion wait left out: the status check comes next
IqeWaitSkipped ==
    /\ pc = "iqe_wait"
    /\ pc' = "iqe_check"
    /\ UNCHANGED <<env, job, labels, labelsFetched, calls, messages, exitCode, outcome>>

\* IQERunner.run: oc wait is issued
IqeWait ==
    /\ pc = "iqe_wait"
    /\ calls' = Append(calls, "oc wait")
    /\ pc' = "iqe_waiting"
    /\ UNCHANGED <<env, job, labels, labelsFetched, messages, exitCode, outcome>>

\* time passes while oc wait --timeout runs
IqeWaitTick ==
    /\ pc = "iqe_waiting"
    /\ waitElapsed < iqe_cji_timeout
    /\ waitElapsed' = Min(waitElapsed + TickSeconds, iqe_cji_timeout)
    /\ UNCHANGED <<env, pc, labels, labelsFetched, pod, calls, messages, printedMap,
                   jobMap, statusFetched, exitCode, outcome, logOutcome, waitOutcome,
                   logElapsed>>

\* oc wait ends: the condition was observed, or it timed out or failed
IqeWaitEnd ==
    /\ pc = "iqe_waiting"
    /\ \E result \in {"complete", "failed"} :
         /\ waitOutcome' = result
         /\ IF WaitHandler(result) = "continue"
            THEN pc' = "iqe_check" /\ UNCHANGED <<messages, exitCode, outcome>>
            ELSE Exit(1, "Crashed", {})
    /\ UNCHANGED <<env, labels, labelsFetched, pod, calls, printedMap, jobMap,
                   statusFetched, logOutcome, logElapsed, waitElapsed>>

\* IQERunner.check_cji_jobs, and the return of run() after it
IqeCheckCjiJobs ==
    /\ pc = "iqe_check"
    /\ calls' = Append(calls, "oc get cji")
    /\ \/ \E jm \in JobMaps :
             /\ jobMap' = jm
             /\ statusFetched' = TRUE
             /\ printedMap' = jm
             /\ IF AnyIncomplete(jm)
                THEN Exit(1, "PartiallyFailed", {"Some jobs failed"})
                ELSE Exit(0, "Succeeded", {"All jobs succeeded"})
       \/ /\ Exit(1, "Crashed", {})
          /\ UNCHANGED <<jobMap, statusFetched, printedMap>>
    /\ UNCHANGED <<env, labels, labelsFetched, pod, logOutcome, waitOutcome,
                   logElapsed, waitElapsed>>

----------------------------------------------------------------------------
(* deploy.py *)

\* main: SNAPSHOT is parsed, owner and repo are read from components[0]
DeployInit ==
    /\ pc = "start" /\ script = "deploy"
    /\ LET parsed == ModelValidateJson(snapshot)
       IN  CASE parsed = "ValidationError" ->
                  Exit(1, "InvalidSnapshot", {"Missing or invalid SNAPSHOT"})
             [] parsed = "KeyError" -> Exit(1, "Crashed", {})
             [] parsed = "ok" /\ snapshot.components = <<>> ->
                  Exit(1, "Crashed", {})
             [] OTHER ->
                  pc' = "deploy_labels" /\ UNCHANGED <<messages, exitCode, outcome>>
    /\ UNCHANGED <<env, job, labels, labelsFetched, calls>>

\* main: labels = get_pr_labels(pr_number, owner=owner, repo=repo)
DeployPrLabels ==
    /\ pc = "deploy_labels"
    /\ GetPrLabels("deploy_gate")
    /\ UNCHANGED <<env, job>>

\* main: the label gating
DeployGateStep ==
    /\ pc = "deploy_gate"
    /\ LET decision == DeployGate(labels, snapshot)
       IN  IF decision = "Proceed"
           THEN pc' = "deploy_secrets" /\ UNCHANGED <<messages, exitCode, outcome>>
           ELSE Exit(GateExitCode(decision), decision, {GateMessage(decision)})
    /\ UNCHANGED <<env, job, labels, labelsFetched, calls>>

\* main: the two secrets are copied into the namespace (status ignored)
DeploySecrets ==
    /\ pc = "deploy_secrets"
    /\ calls' = calls \o <<"oc apply secret koku-aws", "oc apply secret koku-gcp">>
    /\ messages' = messages \cup {"oc get secret | oc apply"}
    /\ pc' = "deploy_command"
    /\ UNCHANGED <<env, job, labels, labelsFetched, exitCode, outcome>>

\* main: the command is printed, and run unless --check
DeployCommand ==
    /\ pc = "deploy_command"
    /\ IF check
       THEN /\ Exit(0, "CheckExit", {"bonfire deploy"})
            /\ UNCHANGED calls
       ELSE /\ calls' = Append(calls, "bonfire deploy")
            /\ \/ Exit(0, "Deployed", {"bonfire deploy"})
               \/ Exit(1, "Crashed", {"bonfire deploy"})
    /\ UNCHANGED <<env, job, labels, labelsFetched>>

----------------------------------------------------------------------------

Next ==
    \/ IqeInit
    \/ IqePrLabels
    \/ IqeGateStep
    \/ IqeRunPod
    \/ IqeFollowLogs
    \/ IqeLogsTick
    \/ IqeLogsEnd
    \/ IqeLogsTimeout
    \/ IqeWait
    \/ IqeWaitTick
    \/ IqeWaitEnd
    \/ IqeCheckCjiJobs
    \/ DeployInit
    \/ DeployPrLabels
    \/ DeployGateStep
    \/ DeploySecrets
    \/ DeployCommand

Spec == Init /\ [][Next]_vars

----------------------------------------------------------------------------
(* Vocabulary of the properties *)

CallSet == {calls[i] : i \in 1..Len(calls)}
Called(c) == c \in CallSet

\* the job-launch contract of each script
LaunchCalls == {"bonfire deploy-iqe-cji", "bonfire deploy"}

\* every command sent to the cluster
ClusterCalls ==
    LaunchCalls \cup {"oc apply secret koku-aws", "oc apply secret koku-gcp",
                      "oc get pod", "oc logs", "oc delete pod", "oc wait",
                      "oc get cji"}

\* the commands that change the cluster
MutatingCalls ==
    LaunchCalls \cup {"oc apply secret koku-aws", "oc apply secret koku-gcp",
                      "oc delete pod"}

GatingExits == {"Skipped", "NotLabeled", "ConfigurationError"}

AllComplete(jm) == \A j \in DOMAIN jm : jm[j] = "Complete"

----------------------------------------------------------------------------
(* C1..C10 *)

\* C1: a test-job run whose labels contain "smokes-required", no label ending
\* in "smoke-tests" and not "ok-to-skip-smokes" ends with the configuration
\* error and a nonzero exit status, and the job is never launched.
C1_RequiredWithoutCategoryIsConfigError ==
    (/\ script = "iqe" /\ pc = "done" /\ labelsFetched
     /\ SmokesRequired \in labels
     /\ ~AnySmokeTestsLabel(labels)
     /\ OkToSkipSmokes \notin labels)
    => (/\ outcome = "ConfigurationError"
        /\ exitCode # 0
        /\ CallSet \cap LaunchCalls = {})

\* C2: once the labels contain "ok-to-skip-smokes", whatever else they contain,
\* no job handle exists, nothing is sent to the cluster, and the run ends with
\* exit status 0 on the skip path.
C2_SkipLabelShortCircuits ==
    (labelsFetched /\ OkToSkipSmokes \in labels)
    => (/\ pod = None
        /\ CallSet \cap ClusterCalls = {}
        /\ pc = "done" => (exitCode = 0 /\ outcome = "Skipped"))

C2_Witness ==
    /\ pc = "done" /\ script = "iqe" /\ ~check
    /\ OkToSkipSmokes \in labels /\ SmokesRequired \in labels
    /\ outcome = "Skipped" /\ exitCode = 0

\* C3: when the job map has been fetched (after the completion condition was
\* observed), the run succeeds with exit 0 iff every entry is "Complete"
\* (also for the empty map); otherwise the verdict is PartiallyFailed, the
\* whole map is printed and the exit status is nonzero.
C3_VerdictFromJobMap ==
    (pc = "done" /\ statusFetched)
    => (/\ waitOutcome = "complete"
        /\ (outcome = "Succeeded" /\ exitCode = 0) <=> AllComplete(jobMap)
        /\ ~AllComplete(jobMap)
             => (/\ outcome = "PartiallyFailed"
                 /\ exitCode # 0
                 /\ printedMap = jobMap
                 /\ "Some jobs failed" \in messages))

C3_Witness ==
    /\ pc = "done" /\ statusFetched
    /\ jobMap = ("a" :> "Complete" @@ "b" :> "Running")
    /\ outcome = "PartiallyFailed" /\ exitCode = 1

\* C4: whenever log streaming exceeded the deadline, the pod delete was issued
\* and the completion wait was started whatever the delete's outcome: a run
\* whose log streaming timed out never ends without the wait having started.
C4_CleanupNeverPreventsWait ==
    (logOutcome = "timeout")
    => (/\ Called("oc delete pod")
        /\ pc = "done" => Called("oc wait"))

\* C5: every run that submitted a job and ended with a nonzero exit status
\* made at least one pod delete attempt before it ended.
C5_FatalPathsCleanUp ==
    (pc = "done" /\ pod # None /\ exitCode # 0) => Called("oc delete pod")

\* C6: if the completion wait times out or fails, the run ends at once with a
\* nonzero exit status: the job map is never fetched and Succeeded is never
\* reached.
C6_WaitFailureIsFatal ==
    (waitOutcome = "failed")
    => (/\ pc = "done"
        /\ exitCode # 0
        /\ ~statusFetched
        /\ ~Called("oc get cji")
        /\ outcome # "Succeeded")

C6_Witness ==
    /\ waitOutcome = "failed" /\ pc = "done"
    /\ waitElapsed = iqe_cji_timeout
    /\ logOutcome = "ok"

\* the exit status and exit path that the wait outcome and the job map alone
\* determine
VerdictOfWaitAndMap ==
    IF waitOutcome = "complete" /\ statusFetched /\ AllComplete(jobMap)
    THEN <<0, "Succeeded">>
    ELSE IF waitOutcome = "complete" /\ statusFetched
    THEN <<1, "PartiallyFailed">>
    ELSE <<1, "Crashed">>

\* C7: when log streaming (the container lookup included) fails with a command
\* error, the run goes on to the completion wait, and its exit status and
\* verdict are the ones the wait outcome and the job map determine, the same as
\* when log streaming ended normally.
C7_LogStreamingIsAdvisory ==
    (logOutcome \in {"ok", "error"})
    => (/\ pc \in {"iqe_wait", "iqe_waiting", "iqe_check", "done"}
        /\ pc = "done"
             => (/\ Called("oc wait")
                 /\ <<exitCode, outcome>> = VerdictOfWaitAndMap))

C7_Witness ==
    /\ logOutcome = "error" /\ ~Called("oc logs")
    /\ pc = "done" /\ outcome = "Succeeded" /\ exitCode = 0

\* C8 as stated: the completion wait is active while log streaming is still in
\* progress, so the time from submission to the end of the wait never exceeds
\* one TimeoutSeconds.
C8_WaitConcurrentWithLogs ==
    /\ pc = "iqe_logs" => Called("oc wait")
    /\ logElapsed + waitElapsed <= iqe_cji_timeout

\* C8 as amended: the completion wait starts only after log streaming has
\* ended; each of the two is bounded by TimeoutSeconds on its own, so the phase
\* after submission is bounded by the log-streaming deadline followed by a
\* second wait deadline.
C8_WaitAfterLogs ==
    /\ Called("oc wait") => (logOutcome # "none" /\ pc # "iqe_logs")
    /\ pc = "iqe_logs" => (logOutcome = "none" /\ waitElapsed = 0)
    /\ logElapsed <= iqe_cji_timeout
    /\ waitElapsed <= iqe_cji_timeout

C8_Witness ==
    /\ pc = "done" /\ outcome = "Succeeded"
    /\ logElapsed = iqe_cji_timeout
    /\ waitElapsed = iqe_cji_timeout
    /\ logElapsed + waitElapsed > iqe_cji_timeout

\* C9: in a run of the test-job script with an empty PR number (not check
\* mode) the label set is empty, obtained without a call of the label API, and
\* gating is skipped: the run does not end at the gating step.
C9_NonPrRunSkipsGating ==
    (script = "iqe" /\ ~check /\ pr_number = "" /\ labelsFetched)
    => (/\ labels = {}
        /\ ~Called("GET label api")
        /\ outcome \notin GatingExits)

\* C10: in check mode neither script issues a command that changes the
\* cluster.
C10_CheckModeNeverMutates ==
    check => CallSet \cap MutatingCalls = {}

----------------------------------------------------------------------------
(* C11, C19, C20: the runs of the two scripts *)

\* C11: in check mode the label API is never called, whatever the PR number,
\* by either script.
C11_CheckModeNeverCallsLabelApi ==
    check => ~Called("GET label api")

\* C19: a deploy run whose SNAPSHOT payload is absent, malformed, or holds a
\* component whose image reference is missing or has not the
\* "repository@sha256:digest" shape performs no later step and ends with a
\* nonzero status and the invalid-snapshot diagnostic.
C19_InvalidSnapshotIsDiagnosed ==
    (script = "deploy" /\ ~snapshot.valid)
    => (/\ ~labelsFetched
        /\ calls = <<>>
        /\ pc = "done"
             => (/\ exitCode # 0
                 /\ outcome = "InvalidSnapshot"
                 /\ "Missing or invalid SNAPSHOT" \in messages))

\* the command a check-mode run prints
PrintedCommands == {"bonfire deploy", "bonfire deploy-iqe-cji"}

\* C20: a check-mode run with a valid snapshot that is not ended by the label
\* gating or the label API completes the derivation whichever optional
\* environment values are unset: it prints the command and exits with status 0.
C20_UnsetEnvironmentNeverCrashes ==
    (/\ check /\ pc = "done"
     /\ snapshot.valid /\ snapshot.components # <<>>
     /\ outcome \notin GatingExits \cup {"UpstreamAPIError"})
    => (/\ outcome = "CheckExit"
        /\ exitCode = 0
        /\ messages \cap PrintedCommands # {})

----------------------------------------------------------------------------
(* The derivations of the scripts, applied on their own to inputs drawn from *)
(* wider sets than the runs above use                                        *)

AwsSmokeTests == <<"a", "w", "s", "-", "s", "m", "o", "k", "e", "-", "t", "e", "s", "t", "s">>
AzureSmokeTests == <<"a", "z", "u", "r", "e", "-", "s", "m", "o", "k", "e", "-", "t", "e", "s", "t", "s">>
GcpSmokeTests == <<"g", "c", "p", "-", "s", "m", "o", "k", "e", "-", "t", "e", "s", "t", "s">>
OciSmokeTests == <<"o", "c", "i", "-", "s", "m", "o", "k", "e", "-", "t", "e", "s", "t", "s">>
OcpSmokeTests == <<"o", "c", "p", "-", "s", "m", "o", "k", "e", "-", "t", "e", "s", "t", "s">>
CostModelSmokeTests == <<"c", "o", "s", "t", "-", "m", "o", "d", "e", "l", "-", "s", "m", "o", "k", "e", "-", "t", "e", "s", "t", "s">>
SmokeTests == <<"s", "m", "o", "k", "e", "-", "t", "e", "s", "t", "s">>

\* the labels the filter and marker selection is applied to
SelectorLabels ==
    {AwsSmokeTests, AzureSmokeTests, GcpSmokeTests, OciSmokeTests, OcpSmokeTests,
     CostModelSmokeTests, HotFixSmokeTests, FullRunSmokeTests, SmokeTests, Bug}

\* IQE_FILTER_EXPRESSION / IQE_MARKER_EXPRESSION: unset, empty, or a value
Overrides == {None, "", "test_custom"}

\* os.environ.get(name, "")
GetOrEmpty(value) == IF value = None THEN "" ELSE value

AwsFilter == "test_api_aws or test_api_ocp_on_aws or test_api_cost_model_aws or test_api_cost_model_ocp_on_aws"
AzureFilter == "test_api_azure or test_api_ocp_on_azure or test_api_cost_model_azure or test_api_cost_model_ocp_on_azure"
GcpFilter == "test_api_gcp or test_api_ocp_on_gcp or test_api_cost_model_gcp or test_api_cost_model_ocp_on_gcp"
OciFilter == "test_api_oci or test_api_cost_model_oci"
OcpFilter == "(test_api_ocp or test_api_cost_model_ocp or aws_ingest_single or aws_ingest_multi) and not ocp_on_gcp and not ocp_on_azure and not ocp_on_cloud"
CostModelFilter == "test_api_cost_model or ocp_source_raw"
GenericFilter == "test_api"

\* iqe_filter_expression with the OCP rule tested before the cloud providers
iqe_filter_expression_ocp_first(override, ls) ==
    IF GetOrEmpty(override) # "" THEN GetOrEmpty(override)
    ELSE IF OcpSmokeTests \in ls THEN OcpFilter
    ELSE IF AwsSmokeTests \in ls THEN AwsFilter
    ELSE IF AzureSmokeTests \in ls THEN AzureFilter
    ELSE IF GcpSmokeTests \in ls THEN GcpFilter
    ELSE IF OciSmokeTests \in ls THEN OciFilter
    ELSE IF CostModelSmokeTests \in ls THEN CostModelFilter
    ELSE IF \E item \in {HotFixSmokeTests, FullRunSmokeTests, SmokeTests} : item \in ls
         THEN GenericFilter
    ELSE ""

\* IQERunner.iqe_filter_expression
iqe_filter_expression(override, ls) ==
    IF GetOrEmpty(override) # "" THEN GetOrEmpty(override)
    ELSE IF AwsSmokeTests \in ls THEN AwsFilter
    ELSE IF AzureSmokeTests \in ls THEN AzureFilter
    ELSE IF GcpSmokeTests \in ls THEN GcpFilter
    ELSE IF OciSmokeTests \in ls THEN OciFilter
    ELSE IF OcpSmokeTests \in ls THEN OcpFilter
    ELSE IF CostModelSmokeTests \in ls THEN CostModelFilter
    ELSE IF \E item \in {HotFixSmokeTests, FullRunSmokeTests, SmokeTests} : item \in ls
         THEN GenericFilter
    ELSE ""

\* iqe_marker_expression starting from "cost_required" instead of "cost_smoke"
iqe_marker_expression_required_default(override, ls) ==
    IF GetOrEmpty(override) # "" THEN GetOrEmpty(override)
    ELSE IF OcpSmokeTests \in ls THEN "cost_smoke and not cost_exclude_ocp_smokes"
    ELSE IF HotFixSmokeTests \in ls THEN "cost_hotfix"
    ELSE IF SmokeTests \in ls THEN "cost_required"
    ELSE "cost_required"

\* iqe_marker_expression with the override used only when no label matches
iqe_marker_expression_labels_first(override, ls) ==
    IF OcpSmokeTests \in ls THEN "cost_smoke and not cost_exclude_ocp_smokes"
    ELSE IF HotFixSmokeTests \in ls THEN "cost_hotfix"
    ELSE IF SmokeTests \in ls THEN "cost_required"
    ELSE IF GetOrEmpty(override) # "" THEN GetOrEmpty(override)
    ELSE "cost_smoke"

\* IQERunner.iqe_marker_expression
iqe_marker_expression(override, ls) ==
    IF GetOrEmpty(override) # "" THEN GetOrEmpty(override)
    ELSE IF OcpSmokeTests \in ls THEN "cost_smoke and not cost_exclude_ocp_smokes"
    ELSE IF HotFixSmokeTests \in ls THEN "cost_hotfix"
    ELSE IF SmokeTests \in ls THEN "cost_required"
    ELSE "cost_smoke"

\* the variables of a run, at rest while a derivation is applied on its own
NoRun ==
    /\ check = FALSE
    /\ pipeline_run_name = None
    /\ labelsFetched = FALSE
    /\ pod = None
    /\ calls = <<>>
    /\ messages = {}
    /\ printedMap = <<>>
    /\ jobMap = <<>>
    /\ statusFetched = FALSE
    /\ exitCode = 0
    /\ outcome = "Running"
    /\ logOutcome = "none"
    /\ waitOutcome = "none"
    /\ logElapsed = 0
    /\ waitElapsed = 0

EmptySnapshot == [valid |-> TRUE, defect |-> "none", components |-> <<>>]

inputs == <<script, check, pr_number, snapshot, pipeline_run_name, timeout_env,
            environ, pc, labels, labelsFetched, pod, calls, messages, printedMap,
            jobMap, statusFetched, exitCode, outcome, logOutcome, waitOutcome,
            logElapsed, waitElapsed>>

\* the derivation called name is evaluated once and its value kept
Derive(name, value) ==
    /\ pc = "derive"
    /\ name \notin derived.applied
    /\ derived' = ("applied" :> (derived.applied \cup {name})) @@ (name :> value)
                    @@ derived
    /\ UNCHANGED inputs

Applied(name) == name \in derived.applied

(* filter and marker selection *)

SelectorInit ==
    /\ script = "selectors"
    /\ pr_number = ""
    /\ snapshot = EmptySnapshot
    /\ timeout_env = None
    /\ environ \in [filter : Overrides, marker : Overrides,
                    check_run_id : {UnsetRunId}, component_name : {None}]
    /\ labels \in SUBSET SelectorLabels
    /\ derived = NoResult
    /\ pc = "derive"
    /\ NoRun

SelectFilter ==
    /\ script = "selectors"
    /\ Derive("filter", iqe_filter_expression(environ.filter, labels))

SelectMarker ==
    /\ script = "selectors"
    /\ Derive("marker", iqe_marker_expression(environ.marker, labels))

SelectorNext ==
    \/ SelectFilter
    \/ SelectMarker

SelectorSpec == SelectorInit /\ [][SelectorNext]_vars

----------------------------------------------------------------------------
(* C12, C13, C14: filter and marker selection *)

NoOverride(value) == value \in {None, ""}

\* the priority table of the filter: the labels of each rule, in order
FilterTable ==
    << <<{AwsSmokeTests}, AwsFilter>>,
       <<{AzureSmokeTests}, AzureFilter>>,
       <<{GcpSmokeTests}, GcpFilter>>,
       <<{OciSmokeTests}, OciFilter>>,
       <<{OcpSmokeTests}, OcpFilter>>,
       <<{CostModelSmokeTests}, CostModelFilter>>,
       <<{HotFixSmokeTests, FullRunSmokeTests, SmokeTests}, GenericFilter>> >>

RuleMatches(i, ls) == FilterTable[i][1] \cap ls # {}

FirstMatch(ls) ==
    IF \E i \in 1..Len(FilterTable) : RuleMatches(i, ls)
    THEN FilterTable[CHOOSE i \in 1..Len(FilterTable) :
                        /\ RuleMatches(i, ls)
                        /\ \A j \in 1..(i - 1) : ~RuleMatches(j, ls)][2]
    ELSE ""

ProviderFilter ==
    [l \in {AwsSmokeTests, AzureSmokeTests, GcpSmokeTests, OciSmokeTests} |->
        CASE l = AwsSmokeTests -> AwsFilter
          [] l = AzureSmokeTests -> AzureFilter
          [] l = GcpSmokeTests -> GcpFilter
          [] l = OciSmokeTests -> OciFilter]

\* C12: with no override the selected filter is the expression of the first
\* rule of the priority table (aws, azure, gcp, oci, ocp, cost-model, generic
\* family) that has a label present; it is "" exactly when no rule has one; and
\* with exactly one cloud-provider label present it is that provider's
\* expression whatever else is present.
C12_FilterIsPriorityTable ==
    (Applied("filter") /\ NoOverride(environ.filter))
    => (/\ derived.filter = FirstMatch(labels)
        /\ derived.filter = ""
             <=> \A i \in 1..Len(FilterTable) : ~RuleMatches(i, labels)
        /\ \A l \in DOMAIN ProviderFilter :
             (labels \cap DOMAIN ProviderFilter = {l})
                => derived.filter = ProviderFilter[l])

C12_Witness ==
    /\ Applied("filter") /\ environ.filter = None
    /\ labels = {GcpSmokeTests, OcpSmokeTests, SmokeTests, Bug}
    /\ derived.filter = GcpFilter

\* C13 as stated: with no override the marker is the OCP-scoped marker when
\* the OCP label is present, else the hot-fix marker when the hot-fix label is
\* present, else the required marker, the one the generic "smoke-tests" label
\* selects; so the empty label set yields the required marker too.
C13_MarkerDefaultIsRequired ==
    (Applied("marker") /\ NoOverride(environ.marker))
    => derived.marker =
         (IF OcpSmokeTests \in labels THEN "cost_smoke and not cost_exclude_ocp_smokes"
          ELSE IF HotFixSmokeTests \in labels THEN "cost_hotfix"
          ELSE "cost_required")

\* C13 as amended: ... else the required marker "cost_required" when the
\* generic "smoke-tests" label is present, and else the default marker
\* "cost_smoke"; the empty label set and every label set matching no rule yield
\* "cost_smoke", not the marker of the "smoke-tests" label.
C13_MarkerDefaultIsCostSmoke ==
    (Applied("marker") /\ NoOverride(environ.marker))
    => (/\ derived.marker =
             (IF OcpSmokeTests \in labels
                THEN "cost_smoke and not cost_exclude_ocp_smokes"
              ELSE IF HotFixSmokeTests \in labels THEN "cost_hotfix"
              ELSE IF SmokeTests \in labels THEN "cost_required"
              ELSE "cost_smoke")
        /\ labels \cap {OcpSmokeTests, HotFixSmokeTests, SmokeTests} = {}
             => (derived.marker = "cost_smoke" /\ derived.marker # "cost_required"))

C13_Witness ==
    /\ Applied("marker") /\ environ.marker = None
    /\ labels = {}
    /\ derived.marker = "cost_smoke"

\* C14: a non-empty override is returned whatever the labels are, by the filter
\* selection and by the marker selection, each with its own override.
C14_OverrideWins ==
    /\ (Applied("filter") /\ ~NoOverride(environ.filter))
         => derived.filter = environ.filter
    /\ (Applied("marker") /\ ~NoOverride(environ.marker))
         => derived.marker = environ.marker

C14_Witness ==
    /\ Applied("filter") /\ Applied("marker")
    /\ environ.filter = "test_custom" /\ environ.marker = "test_custom"
    /\ labels = {OcpSmokeTests, HotFixSmokeTests}
    /\ derived.filter = "test_custom" /\ derived.marker = "test_custom"

----------------------------------------------------------------------------
(* timeout resolution *)

\* IQE_CJI_TIMEOUT / DEPLOY_TIMEOUT: unset, empty, durations, other text
TimeoutRequests == {None, "", "1h", "2h", "90m", "6h", "not-a-duration"}

TimeoutInit ==
    /\ script = "timeout"
    /\ pr_number = ""
    /\ snapshot = EmptySnapshot
    /\ timeout_env \in TimeoutRequests
    /\ environ = UnsetEnviron
    /\ labels \in SUBSET LabelUniverse
    /\ derived = NoResult
    /\ pc = "derive"
    /\ NoRun

ResolveTimeout ==
    /\ script = "timeout"
    /\ Derive("timeout", get_timeout(timeout_env, labels))

TimeoutNext == ResolveTimeout

TimeoutSpec == TimeoutInit /\ [][TimeoutNext]_vars

\* the seconds of each requested value that is a duration
RequestedSeconds ==
    ("1h" :> 3600) @@ ("2h" :> 7200) @@ ("90m" :> 5400) @@ ("6h" :> 21600)

\* C15: the resolved timeout is 18000 s (5 h) whenever "full-run-smoke-tests"
\* is a label, whatever was requested; otherwise the requested duration when
\* the value is one (2 h when it is unset); otherwise 7200 s.
C15_TimeoutReference ==
    Applied("timeout")
    => derived.timeout =
         (IF FullRunSmokeTests \in labels THEN 18000
          ELSE IF timeout_env = None THEN 7200
          ELSE IF timeout_env \in DOMAIN RequestedSeconds
               THEN RequestedSeconds[timeout_env]
          ELSE 7200)

C15_Witness ==
    /\ Applied("timeout")
    /\ timeout_env = "6h"
    /\ FullRunSmokeTests \in labels
    /\ derived.timeout = 18000

----------------------------------------------------------------------------
(* run identifiers and component options *)

Digits == {"0", "1", "2", "3", "4", "5", "6", "7", "8", "9"}

\* str.isdigit (False for the empty string)
IsDigit(s) == Len(s) > 0 /\ \A i \in 1..Len(s) : s[i] \in Digits

\* s[:n]
Take(s, n) == SubSeq(s, 1, Min(n, Len(s)))

\* CHECK_RUN_ID: unset, empty, or a value
RunIds ==
    {UnsetRunId}
    \cup {[set |-> TRUE, value |-> v] :
            v \in {<<>>,
                   <<"a", "b", "c", "d", "e">>,
                   <<"3", "1", "5", "1", "0", "7", "1", "6", "8", "1", "8">>,
                   <<"1", "2", "3">>,
                   <<"1", "2", "a", "4", "5", "6", "7", "8">>}}

\* uuid.uuid4().hex[:8]
UuidHexes == {<<"c", "9", "1", "a", "0", "f", "3", "d">>,
              <<"0", "b", "2", "e", "4", "a", "6", "c">>}

\* str(secrets.randbelow(100))
InvocationValues == {<<"0">>, <<"9", "9">>}

\* get_check_run_identifier without the first-five-characters cut
get_check_run_identifier_uncut(runId) ==
    LET check_run_id == IF runId.set THEN runId.value ELSE <<>>
    IN  IF IsDigit(check_run_id) THEN check_run_id ELSE <<"1">>

\* IQERunner.get_check_run_identifier
get_check_run_identifier(runId) ==
    LET check_run_id == IF runId.set THEN runId.value ELSE <<>>
    IN  IF IsDigit(check_run_id) THEN Take(check_run_id, 5) ELSE <<"1">>

\* deploy.get_run_identifier; uuid is the value uuid4 gives if it is called
get_run_identifier(runId, uuid) ==
    IF runId.set /\ runId.value # <<>> THEN runId.value ELSE uuid

\* the characters of PR_NUMBER
PrNumberChars(pr) == IF pr = "4242" THEN <<"4", "2", "4", "2">> ELSE <<>>

\* f"pr-{pr_number}-" if pr_number else ""
PrPrefix(pr) ==
    IF pr # "" THEN <<"p", "r", "-">> \o PrNumberChars(pr) \o <<"-">> ELSE <<>>

\* os.environ.get("BONFIRE_COMPONENT_NAME") or component.name
EffectiveName(override, component) ==
    IF override # None /\ override # "" THEN override ELSE component.name

TemplateRef(name, value) ==
    [flag |-> "--set-template-ref", component |-> name, parameter |-> "",
     value |-> value]

Parameter(name, parameter, value) ==
    [flag |-> "--set-parameter", component |-> name, parameter |-> parameter,
     value |-> value]

\* get_component_options: what one pass of the loop adds to result, each
\* flag with the argument after it as one pair
ComponentGroup(component, prefix, override, build_number, invocation) ==
    LET component_name == EffectiveName(override, component)
        revision == Take(component.revision, 7)
    IN  << TemplateRef(component_name, component.revision),
           Parameter(component_name, "IMAGE", component.image),
           Parameter(component_name, "IMAGE_TAG", prefix \o revision),
           Parameter(component_name, "DBM_IMAGE", component.image),
           Parameter(component_name, "DBM_IMAGE_TAG", prefix \o revision),
           Parameter(component_name, "DBM_INVOCATION", invocation) >>
        \o (IF component_name = "koku"
            THEN << Parameter(component_name, "SCHEMA_SUFFIX",
                              <<"_">> \o prefix \o revision \o <<"_">> \o build_number) >>
            ELSE <<>>)

RECURSIVE ComponentLoop(_, _, _, _, _, _)
ComponentLoop(components, i, prefix, override, build_number, invocations) ==
    IF i > Len(components) THEN <<>>
    ELSE ComponentGroup(components[i], prefix, override, build_number, invocations[i])
         \o ComponentLoop(components, i + 1, prefix, override, build_number, invocations)

\* deploy.get_component_options; uuid and invocations are the random values
get_component_options(components, pr, override, runId, uuid, invocations) ==
    LET prefix == PrPrefix(pr)
        build_number == get_run_identifier(runId, uuid)
    IN  ComponentLoop(components, 1, prefix, override, build_number, invocations)

BuildComponents ==
    [name : ComponentNames, revision : {LongRevision, ShortRevision}, image : {Image}]

BuildInit ==
    /\ script = "build"
    /\ pr_number \in PrNumbers
    /\ snapshot \in {[valid |-> TRUE, defect |-> "none", components |-> cs] :
                        cs \in SeqsUpTo(BuildComponents, MaxComponents)}
    /\ timeout_env = None
    /\ environ \in [filter : {None}, marker : {None}, check_run_id : RunIds,
                    component_name : {None, "koku", "other"}]
    /\ labels = {}
    /\ derived = NoResult
    /\ pc = "derive"
    /\ NoRun

\* deploy.main: get_component_options(snapshot.components, pr_number)
BuildOptions ==
    /\ script = "build"
    /\ \E uuid \in UuidHexes :
         \E invocations \in [1..Len(snapshot.components) -> InvocationValues] :
            Derive("options",
                   get_component_options(snapshot.components, pr_number,
                                         environ.component_name,
                                         environ.check_run_id, uuid, invocations))

\* deploy.get_run_identifier
DeployRunIdentifier ==
    /\ script = "build"
    /\ \E uuid \in UuidHexes :
         Derive("build_number", get_run_identifier(environ.check_run_id, uuid))

\* IQERunner.get_check_run_identifier
IqeRunIdentifier ==
    /\ script = "build"
    /\ Derive("check_run_id", get_check_run_identifier(environ.check_run_id))

\* IQERunner.schema_suffix, the text after "SCHEMA_SUFFIX="
schema_suffix(components, pr, runId) ==
    LET revision == Take(components[1].revision, 7)
        prefix == PrPrefix(pr)
    IN  <<"_">> \o prefix \o revision \o <<"_">> \o get_check_run_identifier(runId)

\* IQERunner.iqe_env_vars_arg evaluates schema_suffix; components[0] of an
\* empty list raises IndexError and no value is derived
IqeSchemaSuffix ==
    /\ script = "build"
    /\ snapshot.components # <<>>
    /\ Derive("schema_suffix",
              schema_suffix(snapshot.components, pr_number, environ.check_run_id))

BuildNext ==
    \/ BuildOptions
    \/ DeployRunIdentifier
    \/ IqeRunIdentifier
    \/ IqeSchemaSuffix

BuildSpec == BuildInit /\ [][BuildNext]_vars

----------------------------------------------------------------------------
(* C16, C17, C18: component options and run identifiers *)

IsTemplateRef(option) == option.flag = "--set-template-ref"
IsSchemaSuffix(option) ==
    option.flag = "--set-parameter" /\ option.parameter = "SCHEMA_SUFFIX"

\* the positions of options that satisfy Test
Positions(options, Test(_)) == {i \in 1..Len(options) : Test(options[i])}

\* the position of the k-th template-reference binding
RefPosition(options, k) ==
    CHOOSE i \in Positions(options, IsTemplateRef) :
        Cardinality({j \in Positions(options, IsTemplateRef) : j <= i}) = k

Designated(component) == EffectiveName(environ.component_name, component) = "koku"

FiveParameters == <<"IMAGE", "IMAGE_TAG", "DBM_IMAGE", "DBM_IMAGE_TAG", "DBM_INVOCATION">>

\* Each component's group, in snapshot order: the k-th template-reference
\* binding is the k-th component's (name and full revision) and is followed by
\* that component's IMAGE, IMAGE_TAG, DBM_IMAGE, DBM_IMAGE_TAG and
\* DBM_INVOCATION pairs, in this order, and by a SCHEMA_SUFFIX pair exactly
\* when the component's effective name is "koku".
GroupsInSnapshotOrder(options, components) ==
    \A k \in 1..Len(components) :
        LET p == RefPosition(options, k)
            name == EffectiveName(environ.component_name, components[k])
            tag == PrPrefix(pr_number) \o Take(components[k].revision, 7)
        IN  /\ options[p].component = name
            /\ options[p].value = components[k].revision
            /\ \A d \in 1..5 :
                 /\ options[p + d].flag = "--set-parameter"
                 /\ options[p + d].component = name
                 /\ options[p + d].parameter = FiveParameters[d]
            /\ options[p + 1].value = components[k].image
            /\ options[p + 2].value = tag
            /\ options[p + 3].value = components[k].image
            /\ options[p + 4].value = tag
            /\ options[p + 5].value \in InvocationValues
            /\ Designated(components[k]) <=> (p + 6 \in Positions(options, IsSchemaSuffix))

\* C16: the options built from a snapshot with N components (N >= 1) hold
\* exactly N template-reference bindings, exactly 5N parameter pairs (image,
\* image tag, migration image, migration image tag, invocation counter) and
\* one schema-suffix pair, 6N + 1 pairs in all, with the components' groups in
\* snapshot order.
C16_OptionsOfSnapshot ==
    (Applied("options") /\ Len(snapshot.components) >= 1)
    => LET options == derived.options
           N == Len(snapshot.components)
           refs == Positions(options, IsTemplateRef)
           suffixes == Positions(options, IsSchemaSuffix)
       IN  /\ Cardinality(refs) = N
           /\ Cardinality((1..Len(options)) \ (refs \cup suffixes)) = 5 * N
           /\ Len(options) = 6 * N + 1
           /\ GroupsInSnapshotOrder(options, snapshot.components)

\* What holds of the options besides the number of schema-suffix pairs
OptionsWithoutSuffixCount ==
    Applied("options")
    => LET options == derived.options
           N == Len(snapshot.components)
           refs == Positions(options, IsTemplateRef)
           suffixes == Positions(options, IsSchemaSuffix)
       IN  /\ Cardinality(refs) = N
           /\ Cardinality((1..Len(options)) \ (refs \cup suffixes)) = 5 * N
           /\ Len(options) = 6 * N + Cardinality(suffixes)
           /\ GroupsInSnapshotOrder(options, snapshot.components)

\* C17: the options built from a snapshot with at least one component hold
\* exactly one schema-suffix parameter, whatever the environment is.
C17_ExactlyOneSchemaSuffix ==
    (Applied("options") /\ Len(snapshot.components) >= 1)
    => Cardinality(Positions(derived.options, IsSchemaSuffix)) = 1

\* the short run identifier of the claim
ShortRunIdentifier(runId) ==
    IF runId.set /\ IsDigit(runId.value)
    THEN SubSeq(runId.value, 1, IF Len(runId.value) < 5 THEN Len(runId.value) ELSE 5)
    ELSE <<"1">>

----------------------------------------------------------------------------
(* C21: the order of the launch, the wait and the status fetch *)

\* how many times command c has been issued
Count(c) == Cardinality({i \in 1..Len(calls) : calls[i] = c})

\* the position of the first issue of command c
FirstIssue(c) == CHOOSE i \in 1..Len(calls) : calls[i] = c /\ \A j \in 1..(i - 1) : calls[j] # c

\* c was issued, and before d
IssuedBefore(c, d) == Called(c) /\ FirstIssue(c) < FirstIssue(d)

\* the commands run() issues on the pod once it has a handle
HandleCalls == {"oc get pod", "oc logs", "oc delete pod", "oc wait"}

LaunchWaitFetchInOrder ==
    /\ Count("bonfire deploy-iqe-cji") <= 1
    /\ Count("oc wait") <= 1
    /\ Count("oc get cji") <= 1
    /\ pod # None => Called("bonfire deploy-iqe-cji")
    /\ \A c \in HandleCalls :
         Called(c) => pod # None /\ IssuedBefore("bonfire deploy-iqe-cji", c)
    /\ Called("oc get cji")
         => IssuedBefore("oc wait", "oc get cji") /\ waitOutcome = "complete"
    /\ statusFetched => Called("oc get cji")
    /\ ~statusFetched => jobMap = <<>> /\ printedMap = <<>>

HandleWrittenOnce ==
    pod' # pod => /\ pod = None
                  /\ calls' = Append(calls, "bonfire deploy-iqe-cji")

\* C21: in every run the job launch, the completion wait and the status fetch
\* are each issued at most once and in that order; the pod handle is written
\* once, by the launch, and never changes afterwards; the commands on the pod
\* (container lookup, log streaming, clean-up, wait) are issued only once the
\* handle exists; the status map is fetched only after the wait has ended
\* successfully, and no status map is held before that fetch.
C21_LaunchWaitFetchOnceInOrder ==
    [](LaunchWaitFetchInOrder) /\ [][HandleWrittenOnce]_vars

C21_Witness ==
    /\ outcome = "PartiallyFailed"
    /\ logOutcome = "timeout"
    /\ pod # None
    /\ Count("bonfire deploy-iqe-cji") = 1
    /\ Count("oc wait") = 1
    /\ Count("oc get cji") = 1
    /\ statusFetched

----------------------------------------------------------------------------
(* C22: the schema suffix of the deployment and of the test job *)

\* the schema-suffix value get_component_options gives the first component
DeploySchemaSuffix == derived.options[7].value

\* both scripts have derived a schema suffix for a snapshot whose first
\* component is the one named koku
BothSuffixesDerived ==
    /\ Applied("options")
    /\ Applied("schema_suffix")
    /\ Designated(snapshot.components[1])
    /\ IsSchemaSuffix(derived.options[7])

\* C22: for the same PR number, CHECK_RUN_ID value and snapshot with the
\* designated component first, the schema-suffix value of the deploy command
\* equals the schema-suffix value given to the test job, whatever CHECK_RUN_ID
\* is (unset, not numeric, numeric of any length).
C22_SchemaSuffixAgrees ==
    BothSuffixesDerived => DeploySchemaSuffix = derived.schema_suffix

\* The two values agree when CHECK_RUN_ID is numeric with at most five digits
SchemaSuffixAgreesOnShortNumeric ==
    (/\ BothSuffixesDerived
     /\ environ.check_run_id.set
     /\ IsDigit(environ.check_run_id.value)
     /\ Len(environ.check_run_id.value) <= 5)
    => DeploySchemaSuffix = derived.schema_suffix

----------------------------------------------------------------------------
(* The two scripts on the same labels and snapshot, up to their launch *)

\* IQERunner.run without --check, from the labels to the bonfire call of
\* run_pod: the gating, then job_name and schema_suffix are evaluated
IqeUpToLaunch(ls, snap, run_name) ==
    LET decision == IqeGate(ls)
    IN  IF decision # "Proceed" THEN decision
        ELSE IF run_name = None \/ snap.components = <<>> THEN "Crashed"
        ELSE "Launch"

\* deploy.main without --check, from the parsed snapshot to the bonfire deploy
\* call: components[0] is read, then the gating
DeployUpToLaunch(ls, snap) ==
    IF snap.components = <<>> THEN "Crashed"
    ELSE LET decision == DeployGate(ls, snap)
         IN  IF decision # "Proceed" THEN decision ELSE "Launch"

GateInit ==
    /\ script = "gate"
    /\ check = FALSE
    /\ pr_number = "4242"
    /\ snapshot \in {snap \in Snapshots : snap.valid}
    /\ pipeline_run_name \in {None, "koku-ci-5rxkp"}
    /\ timeout_env = None
    /\ environ = UnsetEnviron
    /\ labels \in SUBSET LabelUniverse
    /\ derived = NoResult
    /\ pc = "derive"
    /\ labelsFetched = TRUE
    /\ pod = None
    /\ calls = <<>>
    /\ messages = {}
    /\ printedMap = <<>>
    /\ jobMap = <<>>
    /\ statusFetched = FALSE
    /\ exitCode = 0
    /\ outcome = "Running"
    /\ logOutcome = "none"
    /\ waitOutcome = "none"
    /\ logElapsed = 0
    /\ waitElapsed = 0

IqeUpToLaunchStep ==
    /\ script = "gate"
    /\ Derive("iqe", IqeUpToLaunch(labels, snapshot, pipeline_run_name))

DeployUpToLaunchStep ==
    /\ script = "gate"
    /\ Derive("deploy", DeployUpToLaunch(labels, snapshot))

GateNext ==
    \/ IqeUpToLaunchStep
    \/ DeployUpToLaunchStep

GateSpec == GateInit /\ [][GateNext]_vars

(* C23 *)

\* C23: for every label set and every valid snapshot, without --check and
\* with both scripts seeing the same labels, when the test-job script passes
\* its gating and launches the job, the deploy script passes its gating too
\* and reaches the deploy command: it neither skips nor ends with the
\* missing-labels error.
C23_IqeLaunchImpliesDeployLaunch ==
    (Applied("iqe") /\ Applied("deploy") /\ derived.iqe = "Launch")
    => derived.deploy = "Launch"

C23_Witness ==
    /\ Applied("iqe") /\ Applied("deploy")
    /\ derived.iqe = "Launch"
    /\ derived.deploy = "Launch"
    /\ "koku" \in ComponentNameSet(snapshot)
    /\ SmokesRequired \in labels
    /\ labels # PlaceholderLabels

\* The other direction does not hold: the deploy script launches for a
\* snapshot without koku whatever the labels are
DeployLaunchWithoutIqeLaunch ==
    /\ Applied("iqe") /\ Applied("deploy")
    /\ derived.deploy = "Launch"
    /\ derived.iqe = "NotLabeled"

====
